---- MODULE Spec2Model ----
(***************************************************************************)
(* A model of the ordered object set (fj-core objects/object_set.rs), the  *)
(* half-edge replacement engine (fj-core operations/replace/half_edge.rs), *)
(* the sketch sweep (fj-kernel algorithms/sweep/sketch.rs), the solid      *)
(* approximation (fj-kernel algorithms/approx/solid.rs) and the model      *)
(* viewer (fj-viewer viewer.rs).                                           *)
(*                                                                         *)
(* A Handle<T> is modelled by its identity, a natural number: index_of and *)
(* replace compare `h.id() == handle.id()`, and the ordering ObjectSet::new*)
(* relies on is the ordering of identities.  Sequences are 1-based here,   *)
(* the code's indices are 0-based: index i of the code is position i + 1.  *)
(***************************************************************************)
EXTENDS Integers, Sequences, FiniteSets, TLC

VARIABLES set, store, cache, viewer, call, ret

vars == <<set, store, cache, viewer, call, ret>>

(***************************************************************************)
(* Bounds of the model.                                                    *)
(***************************************************************************)
NumHandles == 3
MaxLen == 3
MaxN == 2
MaxIndex == 7
NumHalfEdges == 2
NumFaces == 4
NumPaths == 3
NumTolerances == 2
NumModels == 2
NumFocusPoints == 2
NumEvents == 2
NumSizes == 2

Handles == 1..NumHandles

HalfEdges == 1..NumHalfEdges

RECURSIVE SeqsUpTo(_, _)
SeqsUpTo(S, n) ==
    IF n = 0 THEN {<<>>}
    ELSE LET shorter == SeqsUpTo(S, n - 1)
         IN  shorter \cup {Append(s, x) : s \in {t \in shorter : Len(t) = n - 1}, x \in S}

(***************************************************************************)
(* Outcomes of a call: a plain value, Option's None / Some, or a panic.    *)
(***************************************************************************)
Value(v) == [kind |-> "Value", val |-> v]
Some(v) == [kind |-> "Some", val |-> v]
None == [kind |-> "None"]
Panic(msg) == [kind |-> "Panic", msg |-> msg]

(***************************************************************************)
(* ObjectSet<T>: struct ObjectSet { inner: Vec<Handle<T>> }                *)
(***************************************************************************)
ObjectSet(inner) == [inner |-> inner]

\* The `for handle in handles` loop of ObjectSet::new without the duplicate
\* check (a mutation of NewLoop).
RECURSIVE NewLoop_unchecked(_, _, _)
NewLoop_unchecked(handles, added, inner) ==
    IF handles = <<>> THEN Value(ObjectSet(inner))
    ELSE NewLoop_unchecked(Tail(handles), added \cup {Head(handles)},
                           Append(inner, Head(handles)))

\* The `for handle in handles` loop of ObjectSet::new: `added` is the BTreeSet
\* of the handles seen, `inner` the Vec built so far.
RECURSIVE NewLoop(_, _, _)
NewLoop(handles, added, inner) ==
    IF handles = <<>> THEN Value(ObjectSet(inner))
    ELSE LET handle == Head(handles)
         IN  IF handle \in added
             THEN Panic("Constructing ObjectSet with duplicate handle")
             ELSE NewLoop(Tail(handles), added \cup {handle}, Append(inner, handle))

new(handles) == NewLoop(handles, {}, <<>>)

from_iter(handles) == new(handles)

len(self) == Len(self.inner)

is_empty(self) == self.inner = <<>>

iter(self) == self.inner

\* Vec::get(index): the element at the 0-based index, None out of bounds.
nth(self, index) ==
    IF index < Len(self.inner) THEN Some(self.inner[index + 1]) ELSE None

\* nth_circular without the modulo (a mutation of nth_circular).
nth_circular_nomod(self, index) ==
    IF is_empty(self) THEN Panic("ObjectSet must not be empty")
    ELSE LET r == nth(self, index)
         IN  IF r.kind = "Some" THEN Value(r.val)
             ELSE Panic("Index must be valid, due to modulo above")

nth_circular(self, index) ==
    IF is_empty(self) THEN Panic("ObjectSet must not be empty")
    ELSE LET i == index % len(self)
             r == nth(self, i)
         IN  IF r.kind = "Some" THEN Value(r.val)
             ELSE Panic("Index must be valid, due to modulo above")

\* Iterator::position: the 0-based index of the first item with the identity.
RECURSIVE position(_, _, _)
position(items, handle, i) ==
    IF items = <<>> THEN None
    ELSE IF Head(items) = handle THEN Some(i)
    ELSE position(Tail(items), handle, i + 1)

index_of(self, handle) == position(iter(self), handle, 0)

contains(self, object) == index_of(self, object).kind = "Some"

\* after with nth in place of nth_circular (a mutation of after).
after_nowrap(self, handle) ==
    LET index == index_of(self, handle)
    IN  IF index.kind = "None" THEN None
        ELSE nth(self, index.val + 1)

after(self, handle) ==
    LET index == index_of(self, handle)
    IN  IF index.kind = "None" THEN None
        ELSE LET r == nth_circular(self, index.val + 1)
             IN  IF r.kind = "Value" THEN Some(r.val) ELSE r

\* Iterator::cycle().take(n): the items repeated endlessly, cut after n; an
\* empty iterator cycles to an empty one.
cycle_take(items, n) ==
    IF items = <<>> THEN <<>>
    ELSE [k \in 1..n |-> items[((k - 1) % Len(items)) + 1]]

\* itertools tuple_windows for pairs: the overlapping windows of two items.
tuple_windows(items) ==
    IF Len(items) < 2 THEN <<>>
    ELSE [k \in 1..(Len(items) - 1) |-> <<items[k], items[k + 1]>>]

\* itertools circular_tuple_windows for pairs: the windows over the iterator
\* cycled and cut after len + 1 items.
circular_tuple_windows(items) ==
    tuple_windows(cycle_take(items, Len(items) + 1))

\* pairs with plain tuple_windows (a mutation of pairs).
pairs_nowrap(self) == tuple_windows(iter(self))

pairs(self) == circular_tuple_windows(iter(self))

\* The first loop of ObjectSet::replace: collect the items before `original`;
\* None when the iterator ends without finding it.
RECURSIVE ReplaceLoop(_, _, _)
ReplaceLoop(it, original, before) ==
    IF it = <<>> THEN None
    ELSE LET next == Head(it)
         IN  IF next = original
             THEN Some([before |-> before, after |-> Tail(it)])
             ELSE ReplaceLoop(Tail(it), original, Append(before, next))

\* replace that leaves `original` in place in front of the replacements (a
\* mutation of replace).
replace_keep(self, original, replacements) ==
    LET found == ReplaceLoop(iter(self), original, <<>>)
    IN  IF found.kind = "None" THEN None
        ELSE LET collected == from_iter(found.val.before \o <<original>>
                                        \o replacements \o found.val.after)
             IN  IF collected.kind = "Value" THEN Some(collected.val) ELSE collected

replace(self, original, replacements) ==
    LET found == ReplaceLoop(iter(self), original, <<>>)
    IN  IF found.kind = "None" THEN None
        ELSE LET collected == from_iter(found.val.before \o replacements
                                        \o found.val.after)
             IN  IF collected.kind = "Value" THEN Some(collected.val) ELSE collected

(***************************************************************************)
(* The objects of the graph and the object store of Services.  The store   *)
(* holds one table per kind of object; a Handle is the position of its     *)
(* object in the table of its kind, so that an insertion yields a handle   *)
(* no earlier object has.  A bare object is the record of its fields.      *)
(***************************************************************************)
EmptyStore ==
    [cycles |-> <<>>, regions |-> <<>>, sketches |-> <<>>,
     faces |-> <<>>, shells |-> <<>>, solids |-> <<>>]

\* Insert::insert: the object is appended to the table of its kind.
Insert(object, kind, services) ==
    [handle |-> Len(services[kind]) + 1,
     services |-> [services EXCEPT ![kind] = Append(@, object)]]

\* Handle::deref
Deref(kind, handle, services) == services[kind][handle]

\* The constructors collect their handles into an ObjectSet (from_iter).
Cycle_new(half_edges) ==
    LET s == from_iter(half_edges)
    IN  IF s.kind = "Value" THEN Value([half_edges |-> s.val]) ELSE s

Region_new(exterior, interiors, color) ==
    LET s == from_iter(interiors)
    IN  IF s.kind = "Value"
        THEN Value([exterior |-> exterior, interiors |-> s.val, color |-> color])
        ELSE s

Sketch_new(regions) ==
    LET s == from_iter(regions)
    IN  IF s.kind = "Value" THEN Value([regions |-> s.val]) ELSE s

Face_new(surface, region) == Value([surface |-> surface, region |-> region])

Shell_new(faces) ==
    LET s == from_iter(faces)
    IN  IF s.kind = "Value" THEN Value([faces |-> s.val]) ELSE s

Solid_new(shells) ==
    LET s == from_iter(shells)
    IN  IF s.kind = "Value" THEN Value([shells |-> s.val]) ELSE s

(***************************************************************************)
(* Specification of the ordered object set: `set` is the ObjectSet the     *)
(* caller holds, `call` the last call with its arguments, `ret` what it    *)
(* returned.                                                               *)
(***************************************************************************)
\* ApproxCache::default(): a cache with no entry.
ApproxCache_default == <<>>

Init ==
    /\ set = ObjectSet(<<>>)
    /\ store = EmptyStore
    /\ cache = ApproxCache_default
    /\ viewer = None
    /\ call = [op |-> "init"]
    /\ ret = None

\* An ObjectSet has no method taking &mut self: the set under study is
\* constructed once and only read afterwards.
Unconstructed == call.op = "init"

\* let set = ObjectSet::new(handles)
New ==
    /\ Unconstructed
    /\ \E handles \in SeqsUpTo(Handles, MaxLen) :
        LET r == new(handles)
        IN  /\ call' = [op |-> "new", handles |-> handles]
            /\ ret' = r
            /\ set' = IF r.kind = "Value" THEN r.val ELSE set
            /\ UNCHANGED <<store, cache, viewer>>

\* let set = handles.into_iter().collect()
FromIter ==
    /\ Unconstructed
    /\ \E handles \in SeqsUpTo(Handles, MaxLen) :
        LET r == from_iter(handles)
        IN  /\ call' = [op |-> "from_iter", handles |-> handles]
            /\ ret' = r
            /\ set' = IF r.kind = "Value" THEN r.val ELSE set
            /\ UNCHANGED <<store, cache, viewer>>

CallLen ==
    /\ call' = [op |-> "len", self |-> set]
    /\ ret' = Value(len(set))
    /\ UNCHANGED <<set, store, cache, viewer>>

Nth(index) ==
    /\ call' = [op |-> "nth", self |-> set, index |-> index]
    /\ ret' = nth(set, index)
    /\ UNCHANGED <<set, store, cache, viewer>>

NthCircular(index) ==
    /\ call' = [op |-> "nth_circular", self |-> set, index |-> index]
    /\ ret' = nth_circular(set, index)
    /\ UNCHANGED <<set, store, cache, viewer>>

IndexOf(handle) ==
    /\ call' = [op |-> "index_of", self |-> set, handle |-> handle]
    /\ ret' = index_of(set, handle)
    /\ UNCHANGED <<set, store, cache, viewer>>

After(handle) ==
    /\ call' = [op |-> "after", self |-> set, handle |-> handle]
    /\ ret' = after(set, handle)
    /\ UNCHANGED <<set, store, cache, viewer>>

Pairs ==
    /\ call' = [op |-> "pairs", self |-> set]
    /\ ret' = Value(pairs(set))
    /\ UNCHANGED <<set, store, cache, viewer>>

\* set.replace(original, replacements): takes &self and returns a new set.
Replace(original, replacements) ==
    /\ call' = [op |-> "replace", self |-> set, original |-> original,
                replacements |-> replacements]
    /\ ret' = replace(set, original, replacements)
    /\ UNCHANGED <<set, store, cache, viewer>>

Next ==
    \/ New
    \/ FromIter
    \/ CallLen
    \/ \E index \in 0..MaxIndex : Nth(index)
    \/ \E index \in 0..MaxIndex : NthCircular(index)
    \/ \E handle \in Handles : IndexOf(handle)
    \/ \E handle \in Handles : After(handle)
    \/ Pairs
    \/ \E original \in Handles, replacements \in SeqsUpTo(Handles, MaxN) :
            Replace(original, replacements)

Spec == Init /\ [][Next]_vars

(***************************************************************************)
(* ReplaceOutput: Original(the receiver) or Updated(a bare object).        *)
(***************************************************************************)
Original(v) == [kind |-> "Original", val |-> v]
Updated(v) == [kind |-> "Updated", val |-> v]

was_updated(output) == output.kind = "Updated"

map_original(output, v) == IF output.kind = "Original" THEN Original(v) ELSE output

\* What a replace_half_edge call leaves: its outcome (a ReplaceOutput, or a
\* panic) and the services as the call left them.
Outcome(out, services) == [out |-> out, services |-> services]

\* An Updated holding a constructed object, or the constructor's panic.
UpdatedBy(constructed) ==
    IF constructed.kind = "Value" THEN Updated(constructed.val) ELSE constructed

\* Insertion of every child, the reused ones too (a mutation of InsertUpdated).
InsertUpdated_always(output, kind, services) ==
    LET ins == Insert(IF was_updated(output) THEN output.val
                      ELSE Deref(kind, output.val, services), kind, services)
    IN  [inner |-> ins.handle, services |-> ins.services]

\* output.map_updated(|updated| updated.insert(services)).into_inner(): the
\* handle of the child, a new one if the child was rebuilt.
InsertUpdated(output, kind, services) ==
    IF was_updated(output)
    THEN LET ins == Insert(output.val, kind, services)
         IN  [inner |-> ins.handle, services |-> ins.services]
    ELSE [inner |-> output.val, services |-> services]

\* The one element of a singleton set.  `Only({e(x) : x \in {d}})` is e with x
\* bound to the value of d, as a `let x = d;` binds it: d is computed once.
Only(S) == CHOOSE x \in S : TRUE

\* The accumulator of a loop over children: the handles pushed so far, the
\* replacement_happened flag, the services, and the panic that ended the loop.
LoopState(items, happened, services, panic) ==
    [items |-> items, happened |-> happened, services |-> services, panic |-> panic]

(***************************************************************************)
(* impl ReplaceHalfEdge for Cycle / Handle<Cycle>                          *)
(***************************************************************************)
\* A cycle that reports Updated also when the half-edge is absent (a
\* mutation of Cycle_replace_half_edge).
Cycle_replace_half_edge_eager(self, original, replacements, services) ==
    Only({Outcome(IF half_edges.kind = "Some"
                  THEN UpdatedBy(Cycle_new(iter(half_edges.val)))
                  ELSE IF half_edges.kind = "None" THEN Updated(self)
                  ELSE half_edges,
                  services) :
            half_edges \in {replace(self.half_edges, original, replacements)}})

Cycle_replace_half_edge(self, original, replacements, services) ==
    Only({Outcome(IF half_edges.kind = "Some"
                  THEN UpdatedBy(Cycle_new(iter(half_edges.val)))
                  ELSE IF half_edges.kind = "None" THEN Original(self)
                  ELSE half_edges,
                  services) :
            half_edges \in {replace(self.half_edges, original, replacements)}})

HandleCycle_replace_half_edge(self, original, replacements, services) ==
    Only({Outcome(map_original(r.out, self), r.services) :
            r \in {Cycle_replace_half_edge(Deref("cycles", self, services), original,
                        replacements, services)}})

(***************************************************************************)
(* impl ReplaceHalfEdge for Region / Handle<Region>                        *)
(***************************************************************************)
\* The `for cycle in self.interiors()` loop.
RECURSIVE Region_interiors_loop(_, _, _, _)
Region_interiors_loop(cycles, original, replacements, acc) ==
    IF cycles = <<>> THEN acc
    ELSE Only({
            IF cycle.out.kind = "Panic"
            THEN LoopState(acc.items, acc.happened, cycle.services, cycle.out)
            ELSE Only({Region_interiors_loop(Tail(cycles), original, replacements, next) :
                         next \in {LoopState(Append(acc.items, ins.inner),
                                             acc.happened \/ was_updated(cycle.out),
                                             ins.services, None) :
                                   ins \in {InsertUpdated(cycle.out, "cycles",
                                                          cycle.services)}}})
            : cycle \in {HandleCycle_replace_half_edge(Head(cycles), original, replacements,
                                                     acc.services)}})

Region_replace_half_edge(self, original, replacements, services) ==
    Only({
        IF exterior.out.kind = "Panic" THEN exterior
        ELSE Only({
            IF loop.panic.kind = "Panic" THEN Outcome(loop.panic, loop.services)
            ELSE IF loop.happened
            THEN Only({Outcome(UpdatedBy(Region_new(ins.inner, loop.items, self.color)),
                               ins.services) :
                        ins \in {InsertUpdated(exterior.out, "cycles", loop.services)}})
            ELSE Outcome(Original(self), loop.services)
            : loop \in {Region_interiors_loop(iter(self.interiors), original,
                            replacements,
                            LoopState(<<>>, was_updated(exterior.out),
                                      exterior.services, None))}})
        : exterior \in {HandleCycle_replace_half_edge(self.exterior, original,
                                                      replacements, services)}})

HandleRegion_replace_half_edge(self, original, replacements, services) ==
    Only({Outcome(map_original(r.out, self), r.services) :
            r \in {Region_replace_half_edge(Deref("regions", self, services), original,
                         replacements, services)}})

(***************************************************************************)
(* impl ReplaceHalfEdge for Sketch / Handle<Sketch>                        *)
(***************************************************************************)
\* The `for region in self.regions()` loop.
RECURSIVE Sketch_regions_loop(_, _, _, _)
Sketch_regions_loop(regions, original, replacements, acc) ==
    IF regions = <<>> THEN acc
    ELSE Only({
            IF region.out.kind = "Panic"
            THEN LoopState(acc.items, acc.happened, region.services, region.out)
            ELSE Only({Sketch_regions_loop(Tail(regions), original, replacements, next) :
                         next \in {LoopState(Append(acc.items, ins.inner),
                                             acc.happened \/ was_updated(region.out),
                                             ins.services, None) :
                                   ins \in {InsertUpdated(region.out, "regions",
                                                          region.services)}}})
            : region \in {HandleRegion_replace_half_edge(Head(regions), original, replacements,
                                                      acc.services)}})

Sketch_replace_half_edge(self, original, replacements, services) ==
    Only({
        IF loop.panic.kind = "Panic" THEN Outcome(loop.panic, loop.services)
        ELSE IF loop.happened
        THEN Outcome(UpdatedBy(Sketch_new(loop.items)), loop.services)
        ELSE Outcome(Original(self), loop.services)
        : loop \in {Sketch_regions_loop(iter(self.regions), original, replacements,
                                      LoopState(<<>>, FALSE, services, None))}})

HandleSketch_replace_half_edge(self, original, replacements, services) ==
    Only({Outcome(map_original(r.out, self), r.services) :
            r \in {Sketch_replace_half_edge(Deref("sketches", self, services), original,
                         replacements, services)}})

(***************************************************************************)
(* impl ReplaceHalfEdge for Face / Handle<Face>                            *)
(***************************************************************************)
Face_replace_half_edge(self, original, replacements, services) ==
    Only({
        IF region.out.kind = "Panic" THEN region
        ELSE IF was_updated(region.out)
        THEN Only({Outcome(UpdatedBy(Face_new(self.surface, ins.inner)), ins.services) :
                    ins \in {InsertUpdated(region.out, "regions", region.services)}})
        ELSE Outcome(Original(self), region.services)
        : region \in {HandleRegion_replace_half_edge(self.region, original,
                                                     replacements, services)}})

HandleFace_replace_half_edge(self, original, replacements, services) ==
    Only({Outcome(map_original(r.out, self), r.services) :
            r \in {Face_replace_half_edge(Deref("faces", self, services), original,
                       replacements, services)}})

(***************************************************************************)
(* impl ReplaceHalfEdge for Shell / Handle<Shell>                          *)
(***************************************************************************)
\* A loop that stops replacing after the first face it rebuilt (a mutation
\* of Shell_faces_loop).
RECURSIVE Shell_faces_loop_first(_, _, _, _)
Shell_faces_loop_first(faces, original, replacements, acc) ==
    IF faces = <<>> THEN acc
    ELSE IF acc.happened
    THEN Only({Shell_faces_loop_first(Tail(faces), original, replacements, next) :
                 next \in {LoopState(Append(acc.items, Head(faces)), TRUE,
                                     acc.services, None)}})
    ELSE Only({
            IF face.out.kind = "Panic"
            THEN LoopState(acc.items, acc.happened, face.services, face.out)
            ELSE Only({Shell_faces_loop_first(Tail(faces), original, replacements, next) :
                         next \in {LoopState(Append(acc.items, ins.inner),
                                             acc.happened \/ was_updated(face.out),
                                             ins.services, None) :
                                   ins \in {InsertUpdated(face.out, "faces",
                                                          face.services)}}})
            : face \in {HandleFace_replace_half_edge(Head(faces), original, replacements,
                                                    acc.services)}})

\* The `for face in self.faces()` loop.
RECURSIVE Shell_faces_loop(_, _, _, _)
Shell_faces_loop(faces, original, replacements, acc) ==
    IF faces = <<>> THEN acc
    ELSE Only({
            IF face.out.kind = "Panic"
            THEN LoopState(acc.items, acc.happened, face.services, face.out)
            ELSE Only({Shell_faces_loop(Tail(faces), original, replacements, next) :
                         next \in {LoopState(Append(acc.items, ins.inner),
                                             acc.happened \/ was_updated(face.out),
                                             ins.services, None) :
                                   ins \in {InsertUpdated(face.out, "faces",
                                                          face.services)}}})
            : face \in {HandleFace_replace_half_edge(Head(faces), original, replacements,
                                                    acc.services)}})

\* A shell that inserts the shell it rebuilt before returning it (a mutation
\* of Shell_replace_half_edge).
Shell_replace_half_edge_inserting(self, original, replacements, services) ==
    Only({
        IF loop.panic.kind = "Panic" THEN Outcome(loop.panic, loop.services)
        ELSE IF loop.happened
        THEN Only({Outcome(UpdatedBy(built),
                           IF built.kind = "Value"
                           THEN Insert(built.val, "shells", loop.services).services
                           ELSE loop.services) :
                   built \in {Shell_new(loop.items)}})
        ELSE Outcome(Original(self), loop.services)
        : loop \in {Shell_faces_loop(iter(self.faces), original, replacements,
                                   LoopState(<<>>, FALSE, services, None))}})

Shell_replace_half_edge(self, original, replacements, services) ==
    Only({
        IF loop.panic.kind = "Panic" THEN Outcome(loop.panic, loop.services)
        ELSE IF loop.happened
        THEN Outcome(UpdatedBy(Shell_new(loop.items)), loop.services)
        ELSE Outcome(Original(self), loop.services)
        : loop \in {Shell_faces_loop(iter(self.faces), original, replacements,
                                   LoopState(<<>>, FALSE, services, None))}})

HandleShell_replace_half_edge(self, original, replacements, services) ==
    Only({Outcome(map_original(r.out, self), r.services) :
            r \in {Shell_replace_half_edge(Deref("shells", self, services), original,
                        replacements, services)}})

(***************************************************************************)
(* impl ReplaceHalfEdge for Solid / Handle<Solid>                          *)
(***************************************************************************)
\* The `for shell in self.shells()` loop.
RECURSIVE Solid_shells_loop(_, _, _, _)
Solid_shells_loop(shells, original, replacements, acc) ==
    IF shells = <<>> THEN acc
    ELSE Only({
            IF shell.out.kind = "Panic"
            THEN LoopState(acc.items, acc.happened, shell.services, shell.out)
            ELSE Only({Solid_shells_loop(Tail(shells), original, replacements, next) :
                         next \in {LoopState(Append(acc.items, ins.inner),
                                             acc.happened \/ was_updated(shell.out),
                                             ins.services, None) :
                                   ins \in {InsertUpdated(shell.out, "shells",
                                                          shell.services)}}})
            : shell \in {HandleShell_replace_half_edge(Head(shells), original, replacements,
                                                     acc.services)}})

Solid_replace_half_edge(self, original, replacements, services) ==
    Only({
        IF loop.panic.kind = "Panic" THEN Outcome(loop.panic, loop.services)
        ELSE IF loop.happened
        THEN Outcome(UpdatedBy(Solid_new(loop.items)), loop.services)
        ELSE Outcome(Original(self), loop.services)
        : loop \in {Solid_shells_loop(iter(self.shells), original, replacements,
                                    LoopState(<<>>, FALSE, services, None))}})

HandleSolid_replace_half_edge(self, original, replacements, services) ==
    Only({Outcome(map_original(r.out, self), r.services) :
            r \in {Solid_replace_half_edge(Deref("solids", self, services), original,
                        replacements, services)}})

(***************************************************************************)
(* Specification of the replacement engine: `store` is the object store of *)
(* the Services, `call` the replace_half_edge call made on it (with the    *)
(* services as they were passed in), `ret` its ReplaceOutput or panic.     *)
(*                                                                         *)
(* The graph the calls run on: two cycles of any half-edges, shared by     *)
(* three regions (cycle 2 is an interior of region 1 and the exterior of   *)
(* region 2), a face per region, three shells sharing the faces, a solid   *)
(* of the shells and a sketch of the regions.                              *)
(***************************************************************************)
CycleChoices == {s \in SeqsUpTo(HalfEdges, NumHalfEdges) : s # <<>> /\ new(s).kind = "Value"}

InitialStore(x, y) ==
    [cycles |-> <<Cycle_new(x).val, Cycle_new(y).val>>,
     regions |-> <<Region_new(1, <<2>>, "red").val,
                   Region_new(2, <<>>, "green").val,
                   Region_new(1, <<>>, "blue").val>>,
     sketches |-> <<Sketch_new(<<1, 2, 3>>).val>>,
     faces |-> <<Face_new("xy", 1).val, Face_new("xz", 2).val, Face_new("yz", 3).val>>,
     shells |-> <<Shell_new(<<2, 3>>).val, Shell_new(<<1, 2>>).val, Shell_new(<<3>>).val>>,
     solids |-> <<Solid_new(<<1, 2, 3>>).val>>]

InitReplace ==
    /\ set = ObjectSet(<<>>)
    /\ \E x \in CycleChoices, y \in CycleChoices : store = InitialStore(x, y)
    /\ cache = ApproxCache_default
    /\ viewer = None
    /\ call = [op |-> "init"]
    /\ ret = None

\* One replace_half_edge call on the services: the receiver is a bare object
\* (form "bare") or a handle (form "handle").
ReplaceHalfEdge(kind, form, self, original, replacements, outcome) ==
    /\ call' = [op |-> "replace_half_edge", kind |-> kind, form |-> form,
                self |-> self, original |-> original,
                replacements |-> replacements, services |-> store]
    /\ ret' = outcome.out
    /\ store' = outcome.services
    /\ UNCHANGED <<set, cache, viewer>>

\* The services are those the caller constructed: no call has run on them.
Fresh == call.op = "init"

\* The inputs of a call: the half-edge to replace and its replacements.
CallInputs == HalfEdges \X SeqsUpTo(HalfEdges, MaxN)

CycleReplaceHalfEdge ==
    /\ Fresh
    /\ \E h \in DOMAIN store.cycles, in \in CallInputs :
        LET self == Deref("cycles", h, store)
        IN  ReplaceHalfEdge("cycles", "bare", self, in[1], in[2],
                Cycle_replace_half_edge(self, in[1], in[2], store))

RegionReplaceHalfEdge ==
    /\ Fresh
    /\ \E h \in DOMAIN store.regions, in \in CallInputs :
        LET self == Deref("regions", h, store)
        IN  ReplaceHalfEdge("regions", "bare", self, in[1], in[2],
                Region_replace_half_edge(self, in[1], in[2], store))

SketchReplaceHalfEdge ==
    /\ Fresh
    /\ \E h \in DOMAIN store.sketches, in \in CallInputs :
        LET self == Deref("sketches", h, store)
        IN  ReplaceHalfEdge("sketches", "bare", self, in[1], in[2],
                Sketch_replace_half_edge(self, in[1], in[2], store))

FaceReplaceHalfEdge ==
    /\ Fresh
    /\ \E h \in DOMAIN store.faces, in \in CallInputs :
        LET self == Deref("faces", h, store)
        IN  ReplaceHalfEdge("faces", "bare", self, in[1], in[2],
                Face_replace_half_edge(self, in[1], in[2], store))

ShellReplaceHalfEdge ==
    /\ Fresh
    /\ \E h \in DOMAIN store.shells, in \in CallInputs :
        LET self == Deref("shells", h, store)
        IN  ReplaceHalfEdge("shells", "bare", self, in[1], in[2],
                Shell_replace_half_edge(self, in[1], in[2], store))

SolidReplaceHalfEdge ==
    /\ Fresh
    /\ \E h \in DOMAIN store.solids, in \in CallInputs :
        LET self == Deref("solids", h, store)
        IN  ReplaceHalfEdge("solids", "bare", self, in[1], in[2],
                Solid_replace_half_edge(self, in[1], in[2], store))

HandleCycleReplaceHalfEdge ==
    /\ Fresh
    /\ \E h \in DOMAIN store.cycles, in \in CallInputs :
        ReplaceHalfEdge("cycles", "handle", h, in[1], in[2],
            HandleCycle_replace_half_edge(h, in[1], in[2], store))

HandleRegionReplaceHalfEdge ==
    /\ Fresh
    /\ \E h \in DOMAIN store.regions, in \in CallInputs :
        ReplaceHalfEdge("regions", "handle", h, in[1], in[2],
            HandleRegion_replace_half_edge(h, in[1], in[2], store))

HandleSketchReplaceHalfEdge ==
    /\ Fresh
    /\ \E h \in DOMAIN store.sketches, in \in CallInputs :
        ReplaceHalfEdge("sketches", "handle", h, in[1], in[2],
            HandleSketch_replace_half_edge(h, in[1], in[2], store))

HandleFaceReplaceHalfEdge ==
    /\ Fresh
    /\ \E h \in DOMAIN store.faces, in \in CallInputs :
        ReplaceHalfEdge("faces", "handle", h, in[1], in[2],
            HandleFace_replace_half_edge(h, in[1], in[2], store))

HandleShellReplaceHalfEdge ==
    /\ Fresh
    /\ \E h \in DOMAIN store.shells, in \in CallInputs :
        ReplaceHalfEdge("shells", "handle", h, in[1], in[2],
            HandleShell_replace_half_edge(h, in[1], in[2], store))

HandleSolidReplaceHalfEdge ==
    /\ Fresh
    /\ \E h \in DOMAIN store.solids, in \in CallInputs :
        ReplaceHalfEdge("solids", "handle", h, in[1], in[2],
            HandleSolid_replace_half_edge(h, in[1], in[2], store))

NextReplace ==
    \/ CycleReplaceHalfEdge
    \/ RegionReplaceHalfEdge
    \/ SketchReplaceHalfEdge
    \/ FaceReplaceHalfEdge
    \/ ShellReplaceHalfEdge
    \/ SolidReplaceHalfEdge
    \/ HandleCycleReplaceHalfEdge
    \/ HandleRegionReplaceHalfEdge
    \/ HandleSketchReplaceHalfEdge
    \/ HandleFaceReplaceHalfEdge
    \/ HandleShellReplaceHalfEdge
    \/ HandleSolidReplaceHalfEdge

SpecReplace == InitReplace /\ [][NextReplace]_vars

(***************************************************************************)
(* Sweep of a sketch (fj-kernel).  A face of the sketch and a path are     *)
(* opaque values; the shell a face sweeps to is the pair of the face and   *)
(* the path it was swept along; a sketch holds its faces, and a solid its  *)
(* shells, as an ordered sequence without duplicates.                      *)
(***************************************************************************)
Faces == 1..NumFaces

Paths == 1..NumPaths

Sketches == {[faces |-> s] : s \in {f \in SeqsUpTo(Faces, MaxLen) : new(f).kind = "Value"}}

\* Sketch::into_faces
into_faces(self) == self.faces

\* Face::sweep: the shell extruded from the face along the path.
Face_sweep(face, path) == [swept |-> face, along |-> path]

\* Solid::new(): a solid of no shells.
KernelSolid_new == [shells |-> <<>>]

\* Solid::with_shells: the solid with the shells added in the order given.
with_shells(self, shells) == [self EXCEPT !.shells = @ \o shells]

\* A loop that puts each shell in front of the earlier ones (a mutation of
\* Sketch_sweep_loop).
RECURSIVE Sketch_sweep_loop_front(_, _, _)
Sketch_sweep_loop_front(faces, path, shells) ==
    IF faces = <<>> THEN shells
    ELSE Sketch_sweep_loop_front(Tail(faces), path,
                                 <<Face_sweep(Head(faces), path)>> \o shells)

\* The `for face in self.into_faces()` loop of Sketch::sweep.
RECURSIVE Sketch_sweep_loop(_, _, _)
Sketch_sweep_loop(faces, path, shells) ==
    IF faces = <<>> THEN shells
    ELSE Sketch_sweep_loop(Tail(faces), path,
                           Append(shells, Face_sweep(Head(faces), path)))

Sketch_sweep(self, path) ==
    with_shells(KernelSolid_new, Sketch_sweep_loop(into_faces(self), path, <<>>))

\* sketch.sweep(path, stores), `path` being the vector `path.into()` gives.
Sweep(sketch, path) ==
    /\ call' = [op |-> "sweep", self |-> sketch, path |-> path]
    /\ ret' = Value(Sketch_sweep(sketch, path))
    /\ UNCHANGED <<set, store, cache, viewer>>

NextSweep == \E sketch \in Sketches, path \in Paths : Sweep(sketch, path)

SpecSweep == Init /\ [][NextSweep]_vars

(***************************************************************************)
(* Approximation of a solid (fj-kernel algorithms/approx/solid.rs).        *)
(*                                                                         *)
(* A BTreeSet<FaceApprox> is modelled by the strictly ascending sequence   *)
(* of its elements, the order its iterator yields them in.  The shell and  *)
(* face approximations and the cache are not part of the sources at hand:  *)
(* they follow the approximation contract, a cache keyed by (identity,     *)
(* tolerance) that memoizes the approximation of a face.                   *)
(***************************************************************************)
Tolerances == 1..NumTolerances

\* The faces a shell of the model may hold.
ApproxFaces == {1, 2, 3}

\* The shells a solid of the model may hold: two that share a face, one of a
\* single face, one of no face.
ApproxShells ==
    {[faces |-> <<1, 2>>], [faces |-> <<2, 3>>], [faces |-> <<3>>], [faces |-> <<>>]}

ApproxSolids ==
    {with_shells(KernelSolid_new, s) :
        s \in {q \in SeqsUpTo(ApproxShells, MaxLen) :
                  \A i, j \in 1..Len(q) : i # j => q[i] # q[j]}}

\* Solid::shells: the iterator over the shells of the solid.
Solid_shells(self) == self.shells

\* The discretisation of a face under a tolerance.
FaceApprox(face, tolerance) == [face |-> face, tolerance |-> tolerance]

\* Ord for FaceApprox (strictly less).
FaceApprox_lt(a, b) ==
    \/ a.face < b.face
    \/ a.face = b.face /\ a.tolerance < b.tolerance

\* BTreeSet::insert: the value goes to its place in the order, unless an
\* equal one is held already.
RECURSIVE BTreeSet_insert(_, _)
BTreeSet_insert(self, value) ==
    IF self = <<>> THEN <<value>>
    ELSE IF Head(self) = value THEN self
    ELSE IF FaceApprox_lt(value, Head(self)) THEN <<value>> \o self
    ELSE <<Head(self)>> \o BTreeSet_insert(Tail(self), value)

\* A collect that keeps every item the iterator yields (a mutation of
\* BTreeSet_from_iter).
RECURSIVE BTreeSet_from_iter_keeping(_, _)
BTreeSet_from_iter_keeping(items, acc) ==
    IF items = <<>> THEN acc
    ELSE BTreeSet_from_iter_keeping(Tail(items), Append(acc, Head(items)))

\* FromIterator for BTreeSet (`.collect()`): the items inserted one by one.
RECURSIVE BTreeSet_from_iter(_, _)
BTreeSet_from_iter(items, acc) ==
    IF items = <<>> THEN acc
    ELSE BTreeSet_from_iter(Tail(items), BTreeSet_insert(acc, Head(items)))

\* The outcome of an approximation: what it returns and the cache it leaves.
Approximation(out, c) == [out |-> out, cache |-> c]

\* Approx for a face: the memoized approximation if the cache holds one for
\* (face, tolerance), else a fresh one, which the cache then holds.
Face_approx_with_cache(self, tolerance, c) ==
    IF <<self, tolerance>> \in DOMAIN c
    THEN Approximation(c[<<self, tolerance>>], c)
    ELSE Approximation(FaceApprox(self, tolerance),
                       [k \in DOMAIN c \cup {<<self, tolerance>>} |->
                            IF k = <<self, tolerance>> THEN FaceApprox(self, tolerance)
                            ELSE c[k]])

\* The faces of a shell approximated one after the other on the one cache.
RECURSIVE Shell_faces_approx(_, _, _, _)
Shell_faces_approx(faces, tolerance, c, acc) ==
    IF faces = <<>> THEN Approximation(acc, c)
    ELSE Only({Shell_faces_approx(Tail(faces), tolerance, a.cache, Append(acc, a.out)) :
                 a \in {Face_approx_with_cache(Head(faces), tolerance, c)}})

\* Approx for a shell: the set of the approximations of its faces.
Shell_approx_with_cache(self, tolerance, c) ==
    Only({Approximation(BTreeSet_from_iter(a.out, <<>>), a.cache) :
            a \in {Shell_faces_approx(self.faces, tolerance, c, <<>>)}})

\* self.shells().flat_map(|shell| shell.approx_with_cache(tolerance, cache)):
\* the items of the shells' approximations, shell after shell, every shell
\* approximated on the cache the one before it left.
RECURSIVE Solid_flat_map(_, _, _, _)
Solid_flat_map(shells, tolerance, c, acc) ==
    IF shells = <<>> THEN Approximation(acc, c)
    ELSE Only({Solid_flat_map(Tail(shells), tolerance, a.cache, acc \o a.out) :
                 a \in {Shell_approx_with_cache(Head(shells), tolerance, c)}})

\* `tolerance.into()` for a value that is a Tolerance already.
Tolerance_into(tolerance) == tolerance

\* A solid approximation that does not collect into a set (a mutation of
\* Solid_approx_with_cache).
Solid_approx_with_cache_keeping(self, tolerance, c) ==
    Only({Approximation(BTreeSet_from_iter_keeping(a.out, <<>>), a.cache) :
            a \in {Solid_flat_map(Solid_shells(self), Tolerance_into(tolerance), c, <<>>)}})

\* impl Approx for &Solid
Solid_approx_with_cache(self, tolerance, c) ==
    Only({Approximation(BTreeSet_from_iter(a.out, <<>>), a.cache) :
            a \in {Solid_flat_map(Solid_shells(self), Tolerance_into(tolerance), c, <<>>)}})

\* solid.approx_with_cache(tolerance, &mut cache)
ApproxWithCache ==
    \E solid \in ApproxSolids, tolerance \in Tolerances :
        \E a \in {Solid_approx_with_cache(solid, tolerance, cache)} :
            /\ call' = [op |-> "approx_with_cache", self |-> solid,
                        tolerance |-> tolerance, cache |-> cache]
            /\ ret' = Value(a.out)
            /\ cache' = a.cache
            /\ UNCHANGED <<set, store, viewer>>

NextApprox == ApproxWithCache

SpecApprox == Init /\ [][NextApprox]_vars

(***************************************************************************)
(* The model viewer (fj-viewer viewer.rs).                                 *)
(*                                                                         *)
(* Camera, InputHandler, Renderer and DrawConfig are not part of the       *)
(* sources at hand.  Of each, the model keeps what the Viewer hands it: a  *)
(* camera holds the box its planes were initialised from, the box they     *)
(* were last updated from and the last input delivered to it; a renderer   *)
(* holds the geometry and the screen size it was last given.  What they    *)
(* compute is left open: a focus point is any of FocusPoints, the initial  *)
(* draw configuration and the renderer's capabilities are any values.      *)
(***************************************************************************)
Models == {[mesh |-> i, aabb |-> i] : i \in 1..NumModels}

FocusPoints == 1..NumFocusPoints

InputEvents == 1..NumEvents

ScreenSizes == 1..NumSizes

\* Aabb::default()
Aabb_default == "default"

\* Camera::default()
Camera_default == [init_planes |-> None, planes |-> None, input |-> None]

\* Camera::init_planes(&aabb)
Camera_init_planes(self, aabb) == [self EXCEPT !.init_planes = Some(aabb)]

\* Camera::update_planes(&aabb)
Camera_update_planes(self, aabb) == [self EXCEPT !.planes = Some(aabb)]

\* Camera::focus_point(cursor, shape): the focus points it may compute.
Camera_focus_point(self, cursor, shape) == FocusPoints

\* InputHandler::handle_event(event, focus_point, &mut camera)
InputHandler_handle_event(event, focus_point, camera) ==
    [camera EXCEPT !.input = Some([event |-> event, focus_point |-> focus_point])]

\* DrawConfig::default(): the draw configurations it may give.
DrawConfig_default == [draw_model : BOOLEAN, draw_mesh : BOOLEAN]

\* Renderer::new(screen).await: an error, or a renderer for the screen.
Renderer_new(screen) ==
    {[kind |-> "Err", err |-> "RendererInitError"]} \cup
    {[kind |-> "Ok",
      val |-> [geometry |-> None, size |-> screen, line_drawing_available |-> b]] :
        b \in BOOLEAN}

\* Renderer::update_geometry(mesh)
Renderer_update_geometry(self, mesh) == [self EXCEPT !.geometry = Some(mesh)]

\* Renderer::is_line_drawing_available()
Renderer_is_line_drawing_available(self) == self.line_drawing_available

\* Renderer::handle_resize(screen_size)
Renderer_handle_resize(self, screen_size) == [self EXCEPT !.size = screen_size]

\* Viewer::new(screen): the outcomes of the construction.
Viewer_new(screen) ==
    {IF renderer.kind = "Err" THEN renderer
     ELSE [kind |-> "Ok",
           val |-> [camera |-> Camera_default,
                    cursor |-> None,
                    draw_config |-> draw_config,
                    focus_point |-> None,
                    input_handler |-> "default",
                    renderer |-> renderer.val,
                    model |-> None]] :
        renderer \in Renderer_new(screen), draw_config \in DrawConfig_default}

\* Viewer::toggle_draw_model
toggle_draw_model(self) ==
    [self EXCEPT !.draw_config.draw_model = ~self.draw_config.draw_model]

\* Viewer::toggle_draw_mesh
toggle_draw_mesh(self) ==
    IF Renderer_is_line_drawing_available(self.renderer)
    THEN [self EXCEPT !.draw_config.draw_mesh = ~self.draw_config.draw_mesh]
    ELSE self

\* Viewer::handle_model_update: Option::replace stores the model and gives
\* back what was stored before.
handle_model_update(self, model) ==
    LET updated == [self EXCEPT !.renderer = Renderer_update_geometry(@, model.mesh)]
        aabb == model.aabb
        replaced == updated.model
        stored == [updated EXCEPT !.model = Some(model)]
    IN  IF replaced = None
        THEN [stored EXCEPT !.camera = Camera_init_planes(@, aabb)]
        ELSE stored

\* Viewer::handle_input_event
handle_input_event(self, event) ==
    IF self.focus_point.kind = "Some"
    THEN [self EXCEPT !.camera =
              InputHandler_handle_event(event, self.focus_point.val, @)]
    ELSE self

\* Viewer::handle_screen_resize
handle_screen_resize(self, screen_size) ==
    [self EXCEPT !.renderer = Renderer_handle_resize(@, screen_size)]

\* An add_focus_point that computes a focus point whether or not one is
\* stored (a mutation of add_focus_point).
add_focus_point_recomputing(self) ==
    IF self.model.kind = "Some"
    THEN {[self EXCEPT !.focus_point = Some(focus_point)] :
            focus_point \in Camera_focus_point(self.camera, self.cursor, self.model.val)}
    ELSE {self}

\* Viewer::add_focus_point: the viewers it may leave.
add_focus_point(self) ==
    IF self.model.kind = "Some"
    THEN IF self.focus_point = None
         THEN {[self EXCEPT !.focus_point = Some(focus_point)] :
                 focus_point \in Camera_focus_point(self.camera, self.cursor, self.model.val)}
         ELSE {self}
    ELSE {self}

\* Viewer::remove_focus_point
remove_focus_point(self) == [self EXCEPT !.focus_point = None]

\* Viewer::draw: a draw error of the renderer is logged and dropped.
draw(self) ==
    LET aabb == IF self.model.kind = "Some" THEN self.model.val.aabb ELSE Aabb_default
    IN  [self EXCEPT !.camera = Camera_update_planes(@, aabb)]

\* let viewer = Viewer::new(&screen).await
InitViewer ==
    /\ set = ObjectSet(<<>>)
    /\ store = EmptyStore
    /\ cache = ApproxCache_default
    /\ \E screen \in ScreenSizes : viewer \in Viewer_new(screen)
    /\ call = [op |-> "new"]
    /\ ret = None

\* A call of a Viewer method: `self` is the viewer before the call.
ViewerCall(op, args, left) ==
    /\ call' = [op |-> op, self |-> viewer.val, args |-> args]
    /\ viewer' = [viewer EXCEPT !.val = left]
    /\ ret' = Value(<<>>)
    /\ UNCHANGED <<set, store, cache>>

\* Viewer::new gave a viewer.
Constructed == viewer.kind = "Ok"

ToggleDrawModel ==
    /\ Constructed
    /\ ViewerCall("toggle_draw_model", <<>>, toggle_draw_model(viewer.val))

ToggleDrawMesh ==
    /\ Constructed
    /\ ViewerCall("toggle_draw_mesh", <<>>, toggle_draw_mesh(viewer.val))

HandleModelUpdate ==
    /\ Constructed
    /\ \E model \in Models :
        ViewerCall("handle_model_update", <<model>>, handle_model_update(viewer.val, model))

HandleInputEvent ==
    /\ Constructed
    /\ \E event \in InputEvents :
        ViewerCall("handle_input_event", <<event>>, handle_input_event(viewer.val, event))

HandleScreenResize ==
    /\ Constructed
    /\ \E screen_size \in ScreenSizes :
        ViewerCall("handle_screen_resize", <<screen_size>>,
                   handle_screen_resize(viewer.val, screen_size))

AddFocusPoint ==
    /\ Constructed
    /\ \E left \in add_focus_point(viewer.val) :
        ViewerCall("add_focus_point", <<>>, left)

RemoveFocusPoint ==
    /\ Constructed
    /\ ViewerCall("remove_focus_point", <<>>, remove_focus_point(viewer.val))

Draw ==
    /\ Constructed
    /\ ViewerCall("draw", <<>>, draw(viewer.val))

NextViewer ==
    \/ ToggleDrawModel
    \/ ToggleDrawMesh
    \/ HandleModelUpdate
    \/ HandleInputEvent
    \/ HandleScreenResize
    \/ AddFocusPoint
    \/ RemoveFocusPoint
    \/ Draw

SpecViewer == InitViewer /\ [][NextViewer]_vars

(***************************************************************************)
(* Vocabulary of the properties, stated on plain sequences.                *)
(***************************************************************************)
NoDup(s) == \A i, j \in 1..Len(s) : i # j => s[i] # s[j]

InSeq(h, s) == \E i \in 1..Len(s) : s[i] = h

\* The 1-based position of h in a sequence that holds it.
PosIn(h, s) == CHOOSE i \in 1..Len(s) : s[i] = h /\ \A j \in 1..(i - 1) : s[j] # h

\* s with the element at position k cut out and r put in its place.
Spliced(s, k, r) == SubSeq(s, 1, k - 1) \o r \o SubSeq(s, k + 1, Len(s))

(***************************************************************************)
(* C1: every ObjectSet value is free of duplicate identities.  new and     *)
(* from_iter over N pairwise distinct handles return the set of length N   *)
(* holding them in the given order; new, from_iter and replace panic, and  *)
(* return no set, when the resulting sequence would hold an identity twice.*)
(***************************************************************************)
C1_DuplicateFree ==
    /\ NoDup(set.inner)
    /\ (call.op = "replace" /\ ret.kind = "Some") => NoDup(ret.val.inner)
    /\ call.op \in {"new", "from_iter"} =>
          IF NoDup(call.handles)
          THEN /\ ret = Value(ObjectSet(call.handles))
               /\ set = ObjectSet(call.handles)
               /\ len(set) = Len(call.handles)
          ELSE ret.kind = "Panic"
    /\ (call.op = "replace" /\ InSeq(call.original, call.self.inner)) =>
          LET k == PosIn(call.original, call.self.inner)
          IN  ~NoDup(Spliced(call.self.inner, k, call.replacements))
                  => ret.kind = "Panic"

\* A replace whose splice would hold an identity twice has panicked.
C1_Witness ==
    /\ call.op = "replace"
    /\ Len(call.self.inner) >= 2
    /\ NoDup(call.replacements)
    /\ ret.kind = "Panic"

(***************************************************************************)
(* C2: S.replace(h, R) is None exactly when h is not in S, whatever the    *)
(* length of R.  Otherwise the call yields the set (elements of S before   *)
(* h) ++ R ++ (elements of S after h): its length is len(S) - 1 + N, h is  *)
(* in it only if h is in R, and R[0] sits at the old index of h.  The one  *)
(* case with h in S that yields no set is the panic of C1, taken exactly   *)
(* when that sequence holds an identity twice.  S is unchanged by the call.*)
(***************************************************************************)
C2_ReplaceSplices ==
    call.op = "replace" =>
        LET S == call.self.inner
            h == call.original
            R == call.replacements
        IN  /\ set = call.self
            /\ (ret.kind = "None") <=> ~InSeq(h, S)
            /\ InSeq(h, S) =>
                  LET k == PosIn(h, S)
                  IN  IF NoDup(Spliced(S, k, R))
                      THEN /\ ret = Some(ObjectSet(Spliced(S, k, R)))
                           /\ len(ret.val) = Len(S) - 1 + Len(R)
                           /\ InSeq(h, ret.val.inner) <=> InSeq(h, R)
                           /\ Len(R) > 0 => ret.val.inner[k] = R[1]
                      ELSE ret.kind = "Panic"

\* A handle in the middle of a set has been replaced by two handles.
C2_Witness ==
    /\ call.op = "replace"
    /\ Len(call.self.inner) = 2
    /\ call.original = call.self.inner[2]
    /\ Len(call.replacements) = 2
    /\ ret.kind = "Some"
    /\ len(ret.val) = 3

(***************************************************************************)
(* C7: on a non-empty set S, nth_circular(i) = nth_circular(i + len(S)) =  *)
(* nth(i mod len(S)); nth_circular panics only on the empty set, and       *)
(* nth(i) is None for every i >= len(S).                                   *)
(***************************************************************************)
C7_CircularIndex ==
    /\ call.op = "nth_circular" =>
          LET S == call.self
              i == call.index
          IN  IF S.inner = <<>> THEN ret.kind = "Panic"
              ELSE /\ ret.kind = "Value"
                   /\ ret = nth_circular(S, i + len(S))
                   /\ Some(ret.val) = nth(S, i % len(S))
                   /\ ret.val = S.inner[(i % Len(S.inner)) + 1]
    /\ call.op = "nth" =>
          IF call.index >= Len(call.self.inner) THEN ret = None
          ELSE ret = Some(call.self.inner[call.index + 1])

\* nth_circular has wrapped an index at least twice the length of the set.
C7_Witness ==
    /\ call.op = "nth_circular"
    /\ Len(call.self.inner) >= 2
    /\ call.index >= 2 * Len(call.self.inner)
    /\ ret.kind = "Value"

(***************************************************************************)
(* C8: on a non-empty set S of length n, pairs() yields exactly n pairs,   *)
(* the k-th being (S[k], S[(k + 1) mod n]), so the second element of the   *)
(* last pair is the first element of the first pair (for n = 1 the one     *)
(* pair is (e0, e0)); the call leaves S as it was, so that calling pairs() *)
(* again yields the same sequence.                                         *)
(***************************************************************************)
C8_PairsClosed ==
    (call.op = "pairs" /\ call.self.inner # <<>>) =>
        LET S == call.self.inner
            n == Len(S)
            P == ret.val
        IN  /\ Len(P) = n
            /\ \A k \in 1..n : P[k] = <<S[k], S[(k % n) + 1]>>
            /\ P[n][2] = P[1][1]
            /\ n = 1 => P = << <<S[1], S[1]>> >>
            /\ set = call.self
            /\ pairs(set) = P

\* pairs() has run over a set of three handles.
C8_Witness ==
    /\ call.op = "pairs"
    /\ Len(call.self.inner) = 3
    /\ Len(ret.val) = 3

(***************************************************************************)
(* C9: S.after(h) is None exactly when h is not in S and never fails; for  *)
(* h at index k it is the element at index (k + 1) mod len(S): the         *)
(* successor of the last element is the first element, and the successor   *)
(* of the only element of a one-element set is that element.               *)
(***************************************************************************)
C9_AfterCircular ==
    call.op = "after" =>
        LET S == call.self.inner
            h == call.handle
            n == Len(S)
        IN  /\ ret.kind # "Panic"
            /\ (ret.kind = "None") <=> ~InSeq(h, S)
            /\ InSeq(h, S) =>
                  LET k == PosIn(h, S)
                  IN  /\ ret = Some(S[(k % n) + 1])
                      /\ k = n => ret = Some(S[1])
                      /\ n = 1 => ret = Some(h)

\* after() has been asked for the successor of the last of several elements.
C9_Witness ==
    /\ call.op = "after"
    /\ Len(call.self.inner) >= 2
    /\ call.handle = call.self.inner[Len(call.self.inner)]
    /\ ret = Some(call.self.inner[1])

(***************************************************************************)
(* Vocabulary of the properties of the replacement engine, read off the    *)
(* object graph: the children of an object, the cycles reachable from it.  *)
(***************************************************************************)
ChildKind(kind) ==
    CASE kind = "regions" -> "cycles"
      [] kind = "sketches" -> "regions"
      [] kind = "faces" -> "regions"
      [] kind = "shells" -> "faces"
      [] kind = "solids" -> "shells"

\* The handles of the children of a bare object, in the order it holds them.
Children(kind, object) ==
    CASE kind = "cycles" -> <<>>
      [] kind = "regions" -> <<object.exterior>> \o object.interiors.inner
      [] kind = "sketches" -> object.regions.inner
      [] kind = "faces" -> <<object.region>>
      [] kind = "shells" -> object.faces.inner
      [] kind = "solids" -> object.shells.inner

RECURSIVE ConcatAll(_)
ConcatAll(ss) == IF ss = <<>> THEN <<>> ELSE Head(ss) \o ConcatAll(Tail(ss))

RECURSIVE SumAll(_)
SumAll(ns) == IF ns = <<>> THEN 0 ELSE Head(ns) + SumAll(Tail(ns))

\* The half-edge sequences of the cycles reachable from a bare object, one
\* per path to a cycle, in traversal order.
RECURSIVE CyclesOf(_, _, _)
CyclesOf(kind, object, services) ==
    IF kind = "cycles" THEN <<object.half_edges.inner>>
    ELSE LET ck == ChildKind(kind)
             ch == Children(kind, object)
         IN  ConcatAll([i \in 1..Len(ch) |-> CyclesOf(ck, services[ck][ch[i]], services)])

Occurs(original, kind, object, services) ==
    LET cs == CyclesOf(kind, object, services)
    IN  \E i \in 1..Len(cs) : InSeq(original, cs[i])

\* A cycle's half-edges with `original`, if there, replaced by `replacements`.
SpliceCycle(c, original, replacements) ==
    IF InSeq(original, c) THEN Spliced(c, PosIn(original, c), replacements) ELSE c

\* Some reachable cycle would hold a half-edge twice after the splice.
SplicePanics(original, replacements, kind, object, services) ==
    LET cs == CyclesOf(kind, object, services)
    IN  \E i \in 1..Len(cs) : ~NoDup(SpliceCycle(cs[i], original, replacements))

\* `rebuilt` holds, position by position, the child handles of `old` where
\* the child does not reach `original`, and handles the store `pre` did not
\* have where it does; the same of the rebuilt children, down to the cycles.
RECURSIVE Reuses(_, _, _, _, _, _)
Reuses(kind, old, rebuilt, pre, post, original) ==
    kind # "cycles" =>
        LET ck == ChildKind(kind)
            oc == Children(kind, old)
            nc == Children(kind, rebuilt)
        IN  /\ Len(nc) = Len(oc)
            /\ \A i \in 1..Len(oc) :
                  IF Occurs(original, ck, pre[ck][oc[i]], pre)
                  THEN /\ nc[i] \notin DOMAIN pre[ck]
                       /\ nc[i] \in DOMAIN post[ck]
                       /\ Reuses(ck, pre[ck][oc[i]], post[ck][nc[i]], pre, post, original)
                  ELSE nc[i] = oc[i]

\* The occurrences of objects strictly below `object` that reach `original`.
RECURSIVE AffectedBelow(_, _, _, _)
AffectedBelow(kind, object, pre, original) ==
    IF kind = "cycles" THEN 0
    ELSE LET ck == ChildKind(kind)
             ch == Children(kind, object)
         IN  SumAll([i \in 1..Len(ch) |->
                 IF Occurs(original, ck, pre[ck][ch[i]], pre)
                 THEN 1 + AffectedBelow(ck, pre[ck][ch[i]], pre, original)
                 ELSE 0])

\* The references, below `object`, to objects the store `pre` did not have.
RECURSIVE NewRefs(_, _, _, _)
NewRefs(kind, object, pre, post) ==
    IF kind = "cycles" THEN <<>>
    ELSE LET ck == ChildKind(kind)
             ch == Children(kind, object)
         IN  ConcatAll([i \in 1..Len(ch) |->
                 IF ch[i] \in DOMAIN pre[ck] THEN <<>>
                 ELSE <<<<ck, ch[i]>>>> \o NewRefs(ck, post[ck][ch[i]], pre, post)])

StoreSize(services) ==
    Len(services.cycles) + Len(services.regions) + Len(services.sketches)
    + Len(services.faces) + Len(services.shells) + Len(services.solids)

\* Every table of `post` is the table of `pre` with objects appended.
Extends(pre, post) ==
    \A kind \in DOMAIN pre :
        /\ Len(post[kind]) >= Len(pre[kind])
        /\ SubSeq(post[kind], 1, Len(pre[kind])) = pre[kind]

\* The bare object the call ran on.
SelfObject ==
    IF call.form = "bare" THEN call.self
    ELSE call.services[call.kind][call.self]

(***************************************************************************)
(* C3: when `original` occurs in no cycle reachable from the receiver (a   *)
(* cycle, region, sketch, face, shell or solid), replace_half_edge returns *)
(* Original carrying the receiver itself (for a Handle receiver the same   *)
(* handle) and no object is inserted into the store at any level.          *)
(***************************************************************************)
C3_AbsentUnchanged ==
    (/\ call.op = "replace_half_edge"
     /\ ~Occurs(call.original, call.kind, SelfObject, call.services)) =>
        /\ ret = Original(call.self)
        /\ store = call.services

\* A Handle<Shell> of two faces, neither reaching `original`, came back.
C3_Witness ==
    /\ call.op = "replace_half_edge"
    /\ call.kind = "shells"
    /\ call.form = "handle"
    /\ Len(SelfObject.faces.inner) = 2
    /\ ~Occurs(call.original, call.kind, SelfObject, call.services)
    /\ Len(call.replacements) > 0
    /\ ret = Original(call.self)

\* The positions of the faces of a shell that reach `original`.
AffectedFaces(shell, original, services) ==
    {i \in 1..Len(shell.faces.inner) :
        Occurs(original, "faces", services.faces[shell.faces.inner[i]], services)}

(***************************************************************************)
(* C4: when `original` occurs in exactly one face of a shell of several    *)
(* faces, replace_half_edge on the shell returns Updated with a shell of   *)
(* as many faces in the same positions, every face but the affected one    *)
(* being the very handle of the original shell and the affected position   *)
(* holding a new face (the one case that returns nothing is the panic of   *)
(* a splice holding a half-edge twice).  Likewise at every level of every  *)
(* Updated result, a child that does not reach `original` is the same      *)
(* handle, and only a child that reaches it is a new one.                  *)
(***************************************************************************)
C4_UnaffectedReused ==
    call.op = "replace_half_edge" =>
        /\ ret.kind = "Updated" =>
              Reuses(call.kind, SelfObject, ret.val, call.services, store, call.original)
        /\ (/\ call.kind = "shells"
            /\ Len(SelfObject.faces.inner) >= 2
            /\ Cardinality(AffectedFaces(SelfObject, call.original, call.services)) = 1) =>
              IF SplicePanics(call.original, call.replacements, call.kind, SelfObject,
                              call.services)
              THEN ret.kind = "Panic"
              ELSE /\ ret.kind = "Updated"
                   /\ Len(ret.val.faces.inner) = Len(SelfObject.faces.inner)
                   /\ \A i \in 1..Len(SelfObject.faces.inner) :
                         IF i \in AffectedFaces(SelfObject, call.original, call.services)
                         THEN ret.val.faces.inner[i] \notin DOMAIN call.services.faces
                         ELSE ret.val.faces.inner[i] = SelfObject.faces.inner[i]

\* A shell of two faces, the second alone reaching `original`, was rebuilt.
C4_Witness ==
    /\ call.op = "replace_half_edge"
    /\ call.kind = "shells"
    /\ call.form = "bare"
    /\ AffectedFaces(SelfObject, call.original, call.services) = {2}
    /\ ret.kind = "Updated"
    /\ ret.val.faces.inner[1] = SelfObject.faces.inner[1]
    /\ ret.val.faces.inner[2] # SelfObject.faces.inner[2]

(***************************************************************************)
(* C5: when replace_half_edge returns Updated, the returned top-level      *)
(* object has not been inserted into the store, every rebuilt descendant   *)
(* it references has been inserted, once per rebuilt occurrence, and the   *)
(* number of insertions the call made is the number of updated objects     *)
(* strictly below the top level.                                           *)
(***************************************************************************)
C5_InsertionsBelowTop ==
    (call.op = "replace_half_edge" /\ ret.kind = "Updated") =>
        LET pre == call.services
            refs == NewRefs(call.kind, ret.val, pre, store)
        IN  /\ Extends(pre, store)
            /\ store[call.kind] = pre[call.kind]
            /\ \A i \in 1..Len(refs) : refs[i][2] \in DOMAIN store[refs[i][1]]
            /\ NoDup(refs)
            /\ Len(refs) = StoreSize(store) - StoreSize(pre)
            /\ Len(refs) = AffectedBelow(call.kind, SelfObject, pre, call.original)

\* A bare solid was rebuilt with at least a shell, a face, a region and a
\* cycle inserted below it.
C5_Witness ==
    /\ call.op = "replace_half_edge"
    /\ call.kind = "solids"
    /\ call.form = "bare"
    /\ ret.kind = "Updated"
    /\ StoreSize(store) - StoreSize(call.services) >= 4
    /\ store.solids = call.services.solids

(***************************************************************************)
(* C6: when `original` is reachable through several sibling branches,      *)
(* every occurrence is replaced, each by the same `replacements` in the    *)
(* same order: the cycles reachable from the Updated result are those of   *)
(* the receiver with `original` spliced out of each, none holds `original` *)
(* unless it is among the replacements, and the outcome is Updated exactly *)
(* when some reachable cycle held `original` (the one case that returns    *)
(* nothing is the panic of a splice holding a half-edge twice).            *)
(***************************************************************************)
C6_EveryOccurrenceReplaced ==
    call.op = "replace_half_edge" =>
        LET pre == call.services
            old == CyclesOf(call.kind, SelfObject, pre)
        IN  IF SplicePanics(call.original, call.replacements, call.kind, SelfObject, pre)
            THEN ret.kind = "Panic"
            ELSE /\ ret.kind \in {"Updated", "Original"}
                 /\ (ret.kind = "Updated")
                        <=> Occurs(call.original, call.kind, SelfObject, pre)
                 /\ ret.kind = "Updated" =>
                       LET now == CyclesOf(call.kind, ret.val, store)
                       IN  /\ Len(now) = Len(old)
                           /\ \A i \in 1..Len(old) :
                                 now[i] = SpliceCycle(old[i], call.original,
                                                      call.replacements)
                           /\ ~InSeq(call.original, call.replacements) =>
                                 \A i \in 1..Len(now) : ~InSeq(call.original, now[i])

\* A region with `original` in its exterior and in an interior was rebuilt
\* with two half-edges in place of each occurrence.
C6_Witness ==
    /\ call.op = "replace_half_edge"
    /\ call.kind = "regions"
    /\ Len(SelfObject.interiors.inner) = 1
    /\ \A i \in 1..2 :
          InSeq(call.original, CyclesOf(call.kind, SelfObject, call.services)[i])
    /\ Len(call.replacements) = 2
    /\ ret.kind = "Updated"

(***************************************************************************)
(* C10: sweeping a sketch along a path yields a solid with exactly one     *)
(* shell per face of the sketch, each the sweep of that face along the     *)
(* same path, in the order of the faces of the sketch: one shell for a     *)
(* sketch of a single face, no shell for a sketch of no faces.             *)
(***************************************************************************)
C10_ShellPerFace ==
    call.op = "sweep" =>
        LET faces == call.self.faces
            shells == ret.val.shells
        IN  /\ Len(shells) = Len(faces)
            /\ \A i \in 1..Len(faces) : shells[i] = Face_sweep(faces[i], call.path)
            /\ Len(faces) = 1 => Len(shells) = 1
            /\ faces = <<>> => shells = <<>>

\* A sketch of three faces has been swept.
C10_Witness ==
    /\ call.op = "sweep"
    /\ Len(call.self.faces) = 3
    /\ Len(ret.val.shells) = 3

(***************************************************************************)
(* Claims about the approximation of a solid.                              *)
(***************************************************************************)
Items(s) == {s[i] : i \in 1..Len(s)}

\* The cache the i-th shell of a solid is approximated on: the cache of the
\* call, as the approximations of the shells before it left it.
RECURSIVE CacheBefore(_, _, _, _)
CacheBefore(shells, tolerance, c, i) ==
    IF i = 1 THEN c
    ELSE Shell_approx_with_cache(shells[i - 1], tolerance,
                                 CacheBefore(shells, tolerance, c, i - 1)).cache

\* C11: the approximation of a solid at tolerance t is exactly the union of
\* the approximations of its shells, each computed at that same tolerance t
\* on the one cache of the call: a face approximation is in the result if
\* and only if it is in the approximation of some shell, and one that
\* several shells produce appears once.
C11_SolidApproxIsUnion ==
    call.op = "approx_with_cache" =>
        LET shells == call.self.shells
            t == call.tolerance
            OfShell(i) == Shell_approx_with_cache(shells[i], t,
                                                  CacheBefore(shells, t, call.cache, i))
        IN  /\ ret.kind = "Value"
            /\ \A x \in Items(ret.val) \cup UNION {Items(OfShell(i).out) : i \in 1..Len(shells)} :
                   InSeq(x, ret.val) <=> \E i \in 1..Len(shells) : InSeq(x, OfShell(i).out)
            /\ NoDup(ret.val)
            /\ \A x \in Items(ret.val) : x.tolerance = t
            /\ cache = CacheBefore(shells, t, call.cache, Len(shells) + 1)

\* A solid of two shells that share a face has been approximated on a cache
\* that held approximations already; the shared face's approximation is in
\* the result.
C11_Witness ==
    /\ call.op = "approx_with_cache"
    /\ call.self.shells = <<[faces |-> <<1, 2>>], [faces |-> <<2, 3>>]>>
    /\ call.cache # ApproxCache_default
    /\ ret.kind = "Value"
    /\ Len(ret.val) = 3
    /\ InSeq(FaceApprox(2, call.tolerance), ret.val)

(***************************************************************************)
(* Claims about the viewer.                                                *)
(***************************************************************************)
\* C12: after any sequence of Viewer operations from Viewer::new, a stored
\* focus point implies a stored model; add_focus_point never overwrites a
\* stored focus point and changes nothing while no model is loaded; the
\* model, once set, never returns to None; and handle_input_event reaches
\* the camera only while a focus point is stored.
C12_FocusPointNeedsModel ==
    Constructed =>
        /\ viewer.val.focus_point # None => viewer.val.model # None
        /\ call.op # "new" =>
            /\ call.op = "add_focus_point" /\ call.self.focus_point # None
                   => viewer.val.focus_point = call.self.focus_point
            /\ call.op = "add_focus_point" /\ call.self.model = None
                   => viewer.val = call.self
            /\ call.self.model # None => viewer.val.model # None
            /\ call.op = "handle_input_event" /\ call.self.focus_point = None
                   => viewer.val.camera = call.self.camera
            /\ viewer.val.camera.input # call.self.camera.input
                   => call.op = "handle_input_event" /\ call.self.focus_point # None

\* add_focus_point has been called on a viewer that stored a model and a
\* focus point already, after an input event reached the camera and the
\* model was updated to another one.
C12_Witness ==
    /\ Constructed
    /\ call.op = "add_focus_point"
    /\ call.self.focus_point = Some(1)
    /\ call.self.camera.input # None
    /\ call.self.model.kind = "Some"
    /\ call.self.camera.init_planes # Some(call.self.model.val.aabb)
    /\ viewer.val.focus_point = Some(1)

====
